---- MODULE Spec2Model ----
(***************************************************************************)
(* A model of dolthub/pg_extension: the platform library loaders and their *)
(* one-time bootstrap, the Windows symbol lookup, the error-reporting      *)
(* stubs, the single-argument call adapter and the extension descriptor    *)
(* loader (registration-file ordering and function-name extraction).       *)
(*                                                                         *)
(* Each subsystem has its own specification over its own variables; the    *)
(* variables of the other subsystems stay at their initial values.         *)
(*   SpecLoader  loadLibraryInternal on both platform loaders              *)
(*   SpecLookup  winLib.Lookup                                             *)
(*   SpecErr     errstart / errmsg / errfinish                             *)
(*   SpecCall    DirectFunctionCall1Coll                                   *)
(*   SpecFiles   LoadExtensions (sorting and migration elision)            *)
(*   SpecSQL     LoadSQLFunctionNames and ExtensionFiles.LoadLibrary       *)
(* Text is modelled as sequences of one-character strings.                 *)
(***************************************************************************)
EXTENDS Integers, Sequences, FiniteSets, TLC

VARIABLES
    \* ---- loader (library_loader_windows.go, unnamed/part_001)
    platform,       \* "WIN" or "LNX": which loader the build selected
    companionOK,    \* environment: does loading the companion library succeed
    onceDone,       \* sync.Once: the done flag
    onceMutex,      \* sync.Once: the mutex owner (0 = free)
    pc,             \* per thread: its position inside loadLibraryInternal
    callsLeft,      \* per thread: the calls it may still start
    bootRuns,       \* how many times the bootstrap body has been entered
    bootEnded,      \* how many times the bootstrap body has ended
    companionLoaded,\* the companion runtime library is mapped
    companionFailed,\* the bootstrap's load of the companion library failed
    opened,         \* the handles open() has returned: a set of <<thread, path>>
    openedEarly,    \* an extension open ran while no bootstrap run had ended
    procAlive,      \* FALSE once the process has terminated
    \* ---- Windows symbol lookup (library_loader_windows.go)
    dll,            \* the open handle's export table: name -> address
    lookupLog,      \* every Lookup call so far: [sym, addr, err, probed]
    \* ---- error-reporting stubs (library/errors.c)
    last_error,     \* the static buffer, as the string it holds: [text, call]
    errStderr,      \* the lines errfinish has written to stderr
    errTrace,       \* the calls made so far, in order
    \* ---- call adapter (unnamed/part_002)
    heap,           \* C heap blocks: address -> [live, mem]
    fc,             \* the frame pointer of the invocation in progress (0 = nil)
    callPc,         \* the position inside DirectFunctionCall1Coll
    callArgs,       \* the invocation's arguments: [fn, collation, arg1]
    result,         \* the Datum the callee returned
    callStderr,     \* the lines DirectFunctionCall1Coll has written to stderr
    callLog,        \* what the callee was handed and did, per callee run
    returns,        \* what each finished invocation returned to its caller
    frameLog,       \* what was done to frames, in order: [op, block]
    \* ---- LoadExtensions (extension_file.go)
    dirEntries,     \* os.ReadDir of share/extension: file names, sorted
    libEntries,     \* os.ReadDir of lib: file names, sorted
    extFile,        \* the ExtensionFiles being built (zero value before)
    sortedNames,    \* SQLFileNames as slices.SortFunc left them
    nextLoop,       \* the elision loop's flag
    filesPc,        \* the position inside LoadExtensions
    \* ---- LoadSQLFunctionNames, ExtensionFiles.LoadLibrary
    sqlExt,         \* the ExtensionFiles the methods are called on
    fileData,       \* os.ReadFile per SQL file: [readable, text]
    namesResult,    \* what LoadSQLFunctionNames last returned
    libResult,      \* what ExtensionFiles.LoadLibrary last returned
    libOpens        \* the paths handed to the library loader so far

loaderVars == <<platform, companionOK, onceDone, onceMutex, pc, callsLeft,
                bootRuns, bootEnded, companionLoaded, companionFailed,
                opened, openedEarly, procAlive>>

lookupVars == <<dll, lookupLog>>

errVars == <<last_error, errStderr, errTrace>>

callVars ==
    <<heap, fc, callPc, callArgs, result, callStderr, callLog, returns,
      frameLog>>

filesVars == <<dirEntries, libEntries, extFile, sortedNames, nextLoop, filesPc>>

sqlVars == <<sqlExt, fileData, namesResult, libResult, libOpens>>

vars == <<loaderVars, lookupVars, errVars, callVars, filesVars, sqlVars>>

-----------------------------------------------------------------------------
(* Bounds *)
NumThreads == 2
MaxCalls == 2
MaxExports == 2
NumAddrs == 2
MaxLookups == 2
MaxErrCalls == 4
OverlongLen == 600
MaxInvocations == 2
NumBlocks == 2
FrameSlots == 2
MaxFiles == 3
MaxSqlFiles == 2
MaxStmts == 2

\* sizeof(last_error)
LastErrorSize == 512

Threads == 1..NumThreads
Paths == {"ext_a", "ext_b"}

-----------------------------------------------------------------------------
(* Text helpers.                                                           *)

Digits == <<"0", "1", "2", "3", "4", "5", "6", "7", "8", "9">>

\* fmt's %d and strconv.Itoa of a non-negative integer.
RECURSIVE Itoa(_)
Itoa(n) == IF n < 10 THEN <<Digits[n + 1]>>
           ELSE Itoa(n \div 10) \o <<Digits[(n % 10) + 1]>>

Range(s) == {s[i] : i \in 1..Len(s)}

\* The characters the model's texts use, in byte order.
CharOrder ==
    << " ", "'", "(", ")", "+", ",", "-", ".",
       "0", "1", "2", "3", "4", "5", "6", "7", "8", "9", ";", "@",
       "A", "B", "C", "D", "E", "F", "G", "H", "I", "J", "K", "L", "M",
       "N", "O", "P", "Q", "R", "S", "T", "U", "V", "W", "X", "Y", "Z", "_",
       "a", "b", "c", "d", "e", "f", "g", "h", "i", "j", "k", "l", "m",
       "n", "o", "p", "q", "r", "s", "t", "u", "v", "w", "x", "y", "z" >>

OrdTable ==
    [c \in Range(CharOrder) |-> CHOOSE i \in 1..Len(CharOrder) : CharOrder[i] = c]

Ord(c) == OrdTable[c]

\* Go's < on strings: byte-wise lexicographic order.
RECURSIVE StrLess(_, _)
StrLess(a, b) ==
    IF a = <<>> THEN b # <<>>
    ELSE IF b = <<>> THEN FALSE
    ELSE IF a[1] = b[1] THEN StrLess(Tail(a), Tail(b))
    ELSE Ord(a[1]) < Ord(b[1])

\* The strictly ascending sequence of a finite set of strings.
RECURSIVE SortedStrings(_)
SortedStrings(set) ==
    IF set = {} THEN <<>>
    ELSE LET least == CHOOSE x \in set : \A y \in set \ {x} : StrLess(x, y)
         IN  <<least>> \o SortedStrings(set \ {least})

HasPrefix(str, prefix) ==
    Len(prefix) <= Len(str) /\ SubSeq(str, 1, Len(prefix)) = prefix

HasSuffix(str, suffix) ==
    /\ Len(suffix) <= Len(str)
    /\ SubSeq(str, Len(str) - Len(suffix) + 1, Len(str)) = suffix

TrimSuffix(str, suffix) ==
    IF HasSuffix(str, suffix) THEN SubSeq(str, 1, Len(str) - Len(suffix))
    ELSE str

\* The member of a one-element set.  { e : x \in {v} } evaluates v once,
\* as a local assigned with := and then read several times.
Only(S) == CHOOSE r \in S : TRUE

\* strings.Index, zero-based: the first position of sub in str, -1 if none.
Index(str, sub) ==
    Only({ Only({ IF hits = {} THEN -1
                  ELSE CHOOSE i \in hits : \A j \in hits : i <= j :
                  hits \in { { i \in 0..(Len(s) - Len(sub)) :
                                 SubSeq(s, i + 1, i + Len(sub)) = sub } } }) :
           s \in {str} })

\* strings.Count: the number of non-overlapping occurrences of sub.
RECURSIVE Count(_, _)
Count(str, sub) ==
    Only({ Only({ IF i = -1 THEN 0
                  ELSE 1 + Count(SubSeq(s, i + Len(sub) + 1, Len(s)), sub) :
                  i \in {Index(s, sub)} }) :
           s \in {str} })

DigitValue(c) == (CHOOSE i \in 1..10 : Digits[i] = c) - 1

RECURSIVE DigitsValue(_)
DigitsValue(str) ==
    IF str = <<>> THEN 0
    ELSE 10 * DigitsValue(SubSeq(str, 1, Len(str) - 1))
         + DigitValue(str[Len(str)])

\* strconv.Atoi: an optional sign and at least one decimal digit.
Atoi(str) ==
    LET signed == str # <<>> /\ str[1] \in {"+", "-"}
        body == IF signed THEN Tail(str) ELSE str
    IN  IF body = <<>> \/ \E i \in 1..Len(body) : body[i] \notin Range(Digits)
          THEN [err |-> TRUE, val |-> 0]
          ELSE [err |-> FALSE,
                val |-> IF signed /\ str[1] = "-" THEN 0 - DigitsValue(body)
                        ELSE DigitsValue(body)]

\* The lower-case form of a character ((?i) matching).
LowerTable ==
    [c \in Range(CharOrder) |->
       IF OrdTable[c] >= OrdTable["A"] /\ OrdTable[c] <= OrdTable["Z"]
         THEN CharOrder[OrdTable[c] - OrdTable["A"] + OrdTable["a"]]
         ELSE c]

Lower(c) == LowerTable[c]

LowerStr(str) == [i \in 1..Len(str) |-> Lower(str[i])]

\* Conversion to uint16 and uint16 arithmetic.
Uint16(n) == n % 65536

-----------------------------------------------------------------------------
(* The loaders: loadLibraryInternal with its sync.Once bootstrap.          *)

InitLoader ==
    /\ platform \in {"WIN", "LNX"}
    /\ companionOK \in BOOLEAN
    /\ onceDone = FALSE
    /\ onceMutex = 0
    /\ pc = [t \in Threads |-> "idle"]
    /\ callsLeft = [t \in Threads |-> MaxCalls]
    /\ bootRuns = 0
    /\ bootEnded = 0
    /\ companionLoaded = FALSE
    /\ companionFailed = FALSE
    /\ opened = {}
    /\ openedEarly = FALSE
    /\ procAlive = TRUE

IdleLoader ==
    /\ platform = "WIN"
    /\ companionOK = TRUE
    /\ onceDone = FALSE
    /\ onceMutex = 0
    /\ pc = [t \in Threads |-> "idle"]
    /\ callsLeft = [t \in Threads |-> 0]
    /\ bootRuns = 0
    /\ bootEnded = 0
    /\ companionLoaded = FALSE
    /\ companionFailed = FALSE
    /\ opened = {}
    /\ openedEarly = FALSE
    /\ procAlive = TRUE

\* A caller enters loadLibraryInternal and reaches Once.Do.
CallLoad(t) ==
    /\ procAlive
    /\ pc[t] = "idle"
    /\ callsLeft[t] > 0
    /\ callsLeft' = [callsLeft EXCEPT ![t] = @ - 1]
    /\ pc' = [pc EXCEPT ![t] = "do"]
    /\ UNCHANGED <<platform, companionOK, onceDone, onceMutex, bootRuns,
                   bootEnded, companionLoaded, companionFailed, opened,
                   openedEarly, procAlive>>

\* Once.Do: the fast path reads the done flag; when it is clear the caller
\* goes to the slow path and waits for the mutex.
OnceDo(t) ==
    /\ procAlive
    /\ pc[t] = "do"
    /\ pc' = [pc EXCEPT ![t] = IF onceDone THEN "open" ELSE "lock"]
    /\ UNCHANGED <<platform, companionOK, onceDone, onceMutex, callsLeft,
                   bootRuns, bootEnded, companionLoaded, companionFailed,
                   opened, openedEarly, procAlive>>

\* Once.doSlow: take the mutex.
OnceLock(t) ==
    /\ procAlive
    /\ pc[t] = "lock"
    /\ onceMutex = 0
    /\ onceMutex' = t
    /\ pc' = [pc EXCEPT ![t] = "slow"]
    /\ UNCHANGED <<platform, companionOK, onceDone, callsLeft, bootRuns,
                   bootEnded, companionLoaded, companionFailed, opened,
                   openedEarly, procAlive>>

\* The flag a mutated Once would publish as it starts the body.
OnceFlagAtStartEager(done) == TRUE

\* The done flag as the body starts: the real Once leaves it alone and
\* stores it only when the body has returned (defer o.done.Store(1)).
OnceFlagAtStart(done) == done

\* Once.doSlow under the mutex: the flag is read again; set, the caller
\* unlocks and leaves; clear, the caller enters the bootstrap body.
OnceSlow(t) ==
    /\ procAlive
    /\ pc[t] = "slow"
    /\ IF onceDone
         THEN /\ onceMutex' = 0
              /\ pc' = [pc EXCEPT ![t] = "open"]
              /\ UNCHANGED <<bootRuns, onceDone>>
         ELSE /\ bootRuns' = bootRuns + 1
              /\ onceDone' = OnceFlagAtStart(onceDone)
              /\ pc' = [pc EXCEPT ![t] = "body"]
              /\ UNCHANGED onceMutex
    /\ UNCHANGED <<platform, companionOK, callsLeft, bootEnded,
                   companionLoaded, companionFailed, opened, openedEarly,
                   procAlive>>

\* Does the bootstrap body panic?  Both loaders panic when runtime.Caller
\* fails; only the Linux loader panics when the companion library does not
\* load, the Windows loader discards LoadLibrary's error.
BodyPanics(plat, callerOK, loadOK) ==
    \/ ~callerOK
    \/ plat = "LNX" /\ ~loadOK

\* The bootstrap body ends: it returns or panics.  Either way the deferred
\* done.Store(1) and Unlock of doSlow run; a panic then unwinds the calling
\* goroutine, which ends in the process terminating.
BootstrapBody(t) ==
    /\ procAlive
    /\ pc[t] = "body"
    /\ \E callerOK \in BOOLEAN :
         /\ companionLoaded' = (companionLoaded \/ (callerOK /\ companionOK))
         /\ companionFailed' = (companionFailed \/ (callerOK /\ ~companionOK))
         /\ pc' = [pc EXCEPT ![t] =
                     IF BodyPanics(platform, callerOK, companionOK)
                       THEN "panic" ELSE "open"]
    /\ bootEnded' = bootEnded + 1
    /\ onceDone' = TRUE
    /\ onceMutex' = 0
    /\ UNCHANGED <<platform, companionOK, callsLeft, bootRuns, opened,
                   openedEarly, procAlive>>

\* An unrecovered panic terminates the process.
PanicExit(t) ==
    /\ procAlive
    /\ pc[t] = "panic"
    /\ procAlive' = FALSE
    /\ UNCHANGED <<platform, companionOK, onceDone, onceMutex, pc, callsLeft,
                   bootRuns, bootEnded, companionLoaded, companionFailed,
                   opened, openedEarly>>

\* The caller's own open of the extension library (dlopen / LoadLibrary):
\* a handle is returned, or the platform's error.
OpenExtension(t) ==
    /\ procAlive
    /\ pc[t] = "open"
    /\ \E path \in Paths, ok \in BOOLEAN :
         opened' = IF ok THEN opened \cup {<<t, path>>} ELSE opened
    /\ openedEarly' = (openedEarly \/ bootEnded = 0 \/ bootRuns # bootEnded)
    /\ pc' = [pc EXCEPT ![t] = "idle"]
    /\ UNCHANGED <<platform, companionOK, onceDone, onceMutex, callsLeft,
                   bootRuns, bootEnded, companionLoaded, companionFailed,
                   procAlive>>

-----------------------------------------------------------------------------
(* winLib.Lookup: the decorated-name search.                               *)

\* A mutated loop that stops one step early (bytes < 64).
RECURSIVE DecoratedFromBelow64(_, _)
DecoratedFromBelow64(sym, bytes) ==
    IF bytes < 64
      THEN << sym \o <<"@">> \o Itoa(bytes),
              <<"_">> \o sym \o <<"@">> \o Itoa(bytes) >>
           \o DecoratedFromBelow64(sym, bytes + 4)
      ELSE <<>>

\* The candidates the loop appends for bytes, bytes + 4, ..., 64:
\* fmt.Sprintf("%s@%d", sym, bytes) and fmt.Sprintf("_%s@%d", sym, bytes).
RECURSIVE DecoratedFrom(_, _)
DecoratedFrom(sym, bytes) ==
    IF bytes <= 64
      THEN << sym \o <<"@">> \o Itoa(bytes),
              <<"_">> \o sym \o <<"@">> \o Itoa(bytes) >>
           \o DecoratedFrom(sym, bytes + 4)
      ELSE <<>>

\* A candidate list with every decorated form first and the bare name
\* last.
CandidatesBareLast(sym) ==
    << <<"_">> \o sym,
       sym \o <<"@", "0">>,
       <<"_">> \o sym \o <<"@", "0">> >>
    \o DecoratedFrom(sym, 4) \o <<sym>>

\* The candidate list Lookup builds, in the order it tries them.
Candidates(sym) ==
    << sym,
       <<"_">> \o sym,
       sym \o <<"@", "0">>,
       <<"_">> \o sym \o <<"@", "0">> >>
    \o DecoratedFrom(sym, 4)

\* syscall.GetProcAddress succeeds exactly on an exported name.
GetProcAddressOK(table, name) == name \in DOMAIN table

\* The index of the first candidate that resolves, 0 when none does.
FirstResolving(table, cands) ==
    IF \E i \in 1..Len(cands) : GetProcAddressOK(table, cands[i])
      THEN CHOOSE i \in 1..Len(cands) :
             /\ GetProcAddressOK(table, cands[i])
             /\ \A j \in 1..(i - 1) : ~GetProcAddressOK(table, cands[j])
      ELSE 0

\* What one Lookup call does: the names it hands to GetProcAddress, in
\* order, and what it returns.
LookupResult(table, sym) ==
    LET cands == Candidates(sym)
        hit == FirstResolving(table, cands)
    IN  IF hit = 0
          THEN [sym |-> sym, addr |-> 0, err |-> "symbol not found",
                probed |-> cands]
          ELSE [sym |-> sym, addr |-> table[cands[hit]], err |-> "",
                probed |-> SubSeq(cands, 1, hit)]

Syms == { <<"f">>, <<"g">> }

\* The names a library of the model may export: decorations of f the
\* search covers, decorations it does not (f@2, f@68, _f@68) and another
\* symbol's.
ExportPool ==
    LET f == <<"f">>
    IN  { f, <<"_">> \o f, <<"g">>, <<"_", "g", "@", "8">> }
        \cup { f \o <<"@">> \o Itoa(n) : n \in {0, 2, 64, 68} }
        \cup { <<"_">> \o f \o <<"@">> \o Itoa(n) : n \in {0, 8, 64, 68} }

Addrs == { 4096 * k : k \in 1..NumAddrs }

InitLookup ==
    /\ \E names \in SUBSET ExportPool :
         /\ Cardinality(names) <= MaxExports
         /\ dll \in [names -> Addrs]
    /\ lookupLog = <<>>

IdleLookup ==
    /\ dll = << >>
    /\ lookupLog = <<>>

Lookup(sym) ==
    /\ Len(lookupLog) < MaxLookups
    /\ lookupLog' = Append(lookupLog, LookupResult(dll, sym))
    /\ UNCHANGED dll

-----------------------------------------------------------------------------
(* The error-reporting stubs: errstart, errmsg, errfinish.                 *)

\* The formatted messages the model's callers produce: the empty string,
\* short ones, and one longer than the buffer.
Messages ==
    { <<>>, <<"a">>, <<"b", "c">>, [i \in 1..OverlongLen |-> "x"] }

\* vsnprintf(last_error, sizeof(last_error), ...): at most size - 1
\* characters are stored, followed by the terminator.
Vsnprintf(size, formatted) ==
    IF Len(formatted) <= size - 1 THEN formatted
    ELSE SubSeq(formatted, 1, size - 1)

NoMessage == [text |-> <<>>, call |-> 0]

InitErr ==
    /\ last_error = NoMessage
    /\ errStderr = <<>>
    /\ errTrace = <<>>

\* errstart: last_error[0] = 0.
errstart ==
    /\ Len(errTrace) < MaxErrCalls
    /\ last_error' = NoMessage
    /\ errTrace' = Append(errTrace, [op |-> "errstart", text |-> <<>>])
    /\ UNCHANGED errStderr

\* errmsg: the formatted message replaces the buffer's contents.  The call
\* field numbers the errmsg call that recorded the text.
errmsg(formatted) ==
    /\ Len(errTrace) < MaxErrCalls
    /\ last_error' = [text |-> Vsnprintf(LastErrorSize, formatted),
                      call |-> Len(errTrace) + 1]
    /\ errTrace' = Append(errTrace, [op |-> "errmsg", text |-> formatted])
    /\ UNCHANGED errStderr

\* A mutated errfinish that clears the buffer once it has emitted it.
SlotAfterFinishCleared(slot) == NoMessage

\* The buffer as errfinish leaves it: untouched.
SlotAfterFinish(slot) == slot

\* errfinish: a non-empty buffer is printed to stderr.
errfinish ==
    /\ Len(errTrace) < MaxErrCalls
    /\ errStderr' = IF last_error.text # <<>>
                      THEN Append(errStderr, last_error)
                      ELSE errStderr
    /\ last_error' = SlotAfterFinish(last_error)
    /\ errTrace' = Append(errTrace, [op |-> "errfinish", text |-> <<>>])

-----------------------------------------------------------------------------
(* The call adapter: DirectFunctionCall1Coll.                              *)

Datums == {0, 7}
Fns == {"fn_a", "fn_b"}
Collations == {100}
Blocks == 1..NumBlocks

ZeroArg == [value |-> 0, isnull |-> FALSE]

\* A FunctionCallInfoBaseData with every byte zero.
ZeroFrame ==
    [isnull |-> FALSE, fncollation |-> 0, nargs |-> 0,
     args |-> [i \in 1..FrameSlots |-> ZeroArg]]

\* What freshly malloc'ed memory may hold: anything; the model draws from
\* frames whose argument slots are all clear or all set.
GarbageFrames ==
    [isnull : BOOLEAN, fncollation : {0}, nargs : {0, 7},
     args : { [i \in 1..FrameSlots |-> ZeroArg],
              [i \in 1..FrameSlots |-> [value |-> 7, isnull |-> TRUE]] }]

FreeBlock == [live |-> FALSE, mem |-> ZeroFrame]

InitCall ==
    /\ heap = [b \in Blocks |-> FreeBlock]
    /\ fc = 0
    /\ callPc = "idle"
    /\ callArgs = [fn |-> "fn_a", collation |-> 0, arg1 |-> 0]
    /\ result = 0
    /\ callStderr = <<>>
    /\ callLog = <<>>
    /\ returns = <<>>
    /\ frameLog = <<>>

\* A caller invokes DirectFunctionCall1Coll(fn, collation, arg1).
DFC_Enter(fn, collation, arg1) ==
    /\ callPc = "idle"
    /\ Len(returns) < MaxInvocations
    /\ callArgs' = [fn |-> fn, collation |-> collation, arg1 |-> arg1]
    /\ callPc' = "malloc"
    /\ UNCHANGED <<heap, fc, result, callStderr, callLog, returns, frameLog>>

\* A mutated return that hands back zero for a result flagged null.
ReturnedDatumZeroOnNull(res, isnull) == IF isnull THEN 0 ELSE res

\* return result: the callee's Datum, whatever the frame's null flag.
ReturnedDatum(res, isnull) == res

\* C.malloc(SZ_FCINFO) fails: the out-of-memory line is printed and 0 is
\* returned without the callee being run.
DFC_MallocFails ==
    /\ callPc = "malloc"
    /\ fc' = 0
    /\ callStderr' = Append(callStderr, [line |-> "out of memory",
                                         fn |-> callArgs.fn])
    /\ returns' = Append(returns, [value |-> [datum |-> 0],
                                   reachedCallee |-> FALSE,
                                   args |-> callArgs])
    /\ callPc' = "idle"
    /\ UNCHANGED <<heap, callArgs, result, callLog, frameLog>>

\* C.malloc(SZ_FCINFO) succeeds: a block that is not live, holding
\* whatever it held; free is deferred.
DFC_Malloc ==
    /\ callPc = "malloc"
    /\ \E b \in Blocks, junk \in GarbageFrames :
         /\ ~heap[b].live
         /\ heap' = [heap EXCEPT ![b] = [live |-> TRUE, mem |-> junk]]
         /\ fc' = b
         /\ frameLog' = Append(frameLog, [op |-> "malloc", block |-> b])
    /\ callPc' = "memset"
    /\ UNCHANGED <<callArgs, result, callStderr, callLog, returns>>

\* A mutated fill that clears only what the adapter goes on to set: the
\* frame's null flag, the argument count and the first argument slot.
MemsetUsedOnly(mem) ==
    [mem EXCEPT !.isnull = FALSE, !.nargs = 0, !.args[1] = ZeroArg]

\* memset(fc, 0, SZ_FCINFO) on a block of SZ_FCINFO bytes: every byte of
\* the frame, the unused argument slots included.
Memset(mem) == ZeroFrame

\* C.memset(fc, 0, SZ_FCINFO).
DFC_Memset ==
    /\ callPc = "memset"
    /\ heap' = [heap EXCEPT ![fc].mem = Memset(@)]
    /\ frameLog' = Append(frameLog, [op |-> "memset", block |-> fc])
    /\ callPc' = "fill"
    /\ UNCHANGED <<fc, callArgs, result, callStderr, callLog, returns>>

\* The five field assignments before the call.
DFC_Fill ==
    /\ callPc = "fill"
    /\ heap' = [heap EXCEPT ![fc].mem =
                  [@ EXCEPT !.isnull = FALSE,
                            !.fncollation = callArgs.collation,
                            !.nargs = 1,
                            !.args[1] = [value |-> callArgs.arg1,
                                         isnull |-> FALSE]]]
    /\ frameLog' = Append(frameLog, [op |-> "fill", block |-> fc])
    /\ callPc' = "call"
    /\ UNCHANGED <<fc, callArgs, result, callStderr, callLog, returns>>

\* FunctionPassthrough: the callee runs on the frame; it returns a Datum
\* and may set the frame's null flag.
DFC_Callee ==
    /\ callPc = "call"
    /\ \E d \in Datums, setsNull \in BOOLEAN :
         /\ result' = d
         /\ heap' = [heap EXCEPT ![fc].mem.isnull =
                       IF setsNull THEN TRUE ELSE @]
         /\ callLog' = Append(callLog, [block |-> fc, frame |-> heap[fc].mem,
                                        datum |-> d, setsNull |-> setsNull])
    /\ frameLog' = Append(frameLog, [op |-> "call", block |-> fc])
    /\ callPc' = "check"
    /\ UNCHANGED <<fc, callArgs, callStderr, returns>>

\* The null check, the return and the deferred C.free(fc).
DFC_Return ==
    /\ callPc = "check"
    /\ callStderr' = IF heap[fc].mem.isnull
                       THEN Append(callStderr, [line |-> "returned NULL",
                                                fn |-> callArgs.fn])
                       ELSE callStderr
    /\ returns' = Append(returns,
                     [value |-> [datum |-> ReturnedDatum(result,
                                                         heap[fc].mem.isnull)],
                      reachedCallee |-> TRUE,
                      args |-> callArgs])
    /\ heap' = [heap EXCEPT ![fc].live = FALSE]
    /\ frameLog' = Append(frameLog, [op |-> "free", block |-> fc])
    /\ fc' = 0
    /\ callPc' = "idle"
    /\ UNCHANGED <<callArgs, result, callLog>>

-----------------------------------------------------------------------------
(* LoadExtensions: discovery, ordering and migration elision of an         *)
(* extension's registration files.                                         *)

DashDash == <<"-", "-">>
DotSql == <<".", "s", "q", "l">>
DotControl == <<".", "c", "o", "n", "t", "r", "o", "l">>

\* (uint16(major) << 8) + uint16(minor)
EncodeVersion(major, minor) ==
    Uint16(Uint16(Uint16(major) * 256) + Uint16(minor))

\* sqlFileToVersions: the [from, to] version codes of a file name.
sqlFileToVersions(name, sqlFileName) ==
    IF ~HasSuffix(sqlFileName, DotSql) THEN <<0, 0>>
    ELSE
    LET versionSubsection ==
            TrimSuffix(SubSeq(sqlFileName, Len(name) + 3, Len(sqlFileName)),
                       DotSql)
        dashIdx == Index(versionSubsection, DashDash)
        from == IF dashIdx = -1 THEN versionSubsection
                ELSE SubSeq(versionSubsection, 1, dashIdx)
        to == IF dashIdx = -1 THEN versionSubsection
              ELSE SubSeq(versionSubsection, dashIdx + 3,
                          Len(versionSubsection))
        fromSplit == Index(from, <<".">>)
        toSplit == Index(to, <<".">>)
    IN  IF fromSplit = -1 \/ toSplit = -1 THEN <<0, 0>>
        ELSE
        LET fromMajor == Atoi(SubSeq(from, 1, fromSplit))
            fromMinor == Atoi(SubSeq(from, fromSplit + 2, Len(from)))
            toMajor == Atoi(SubSeq(to, 1, toSplit))
            toMinor == Atoi(SubSeq(to, toSplit + 2, Len(to)))
        IN  IF fromMajor.err \/ fromMinor.err \/ toMajor.err \/ toMinor.err
              THEN <<0, 0>>
              ELSE << EncodeVersion(fromMajor.val, fromMinor.val),
                      EncodeVersion(toMajor.val, toMinor.val) >>

\* cmp.Compare on integers.
Compare(x, y) == IF x < y THEN -1 ELSE IF x > y THEN 1 ELSE 0

\* The comparison function handed to slices.SortFunc: cmp.Or of the
\* comparisons of the from codes and of the to codes.
CompareFiles(name, aStr, bStr) ==
    LET a == sqlFileToVersions(name, aStr)
        b == sqlFileToVersions(name, bStr)
    IN  IF Compare(a[1], b[1]) # 0 THEN Compare(a[1], b[1])
        ELSE Compare(a[2], b[2])

\* One element sunk into the sorted prefix before it: the inner loop of
\* the insertion sort slices.SortFunc runs on slices of at most 12.
RECURSIVE SinkLast(_, _)
SinkLast(name, data) ==
    LET n == Len(data)
    IN  IF n >= 2 /\ CompareFiles(name, data[n], data[n - 1]) < 0
          THEN Append(SinkLast(name, SubSeq(data, 1, n - 2) \o <<data[n]>>),
                      data[n - 1])
          ELSE data

RECURSIVE SortFunc(_, _)
SortFunc(name, data) ==
    IF Len(data) <= 1 THEN data
    ELSE SinkLast(name,
                  Append(SortFunc(name, SubSeq(data, 1, Len(data) - 1)),
                         data[Len(data)]))

\* The first pass of LoadExtensions over the extension named by the
\* control file: its SQL files, the last library whose name starts with
\* "<name>.", and the sort.
Discovered(name, dirs, libs) ==
    LET sqls == SelectSeq(dirs, LAMBDA f :
                    HasPrefix(f, name \o DashDash) /\ HasSuffix(f, DotSql))
        mine == SelectSeq(libs, LAMBDA f : HasPrefix(f, name \o <<".">>))
    IN  [Name |-> name,
         ControlFileName |-> name \o DotControl,
         SQLFileNames |-> SortFunc(name, sqls),
         LibraryFileName |-> IF mine = <<>> THEN <<>> ELSE mine[Len(mine)]]

\* A mutated inner loop that starts its scan at i = 0 instead of i = 1.
ElideIndexFromZero(names) ==
    LET hits == { i \in 0..(Len(names) - 1) :
                    Count(names[i + 1], DashDash) = 1 }
    IN  IF hits = {} THEN -1
        ELSE CHOOSE i \in hits : \A j \in hits : i <= j

\* The zero-based index the inner elision loop stops at: the first i >= 1
\* whose name holds exactly one "--"; -1 when the loop runs to the end.
ElideIndex(names) ==
    LET hits == { i \in 1..(Len(names) - 1) :
                    Count(names[i + 1], DashDash) = 1 }
    IN  IF hits = {} THEN -1
        ELSE CHOOSE i \in hits : \A j \in hits : i <= j

ExtName == <<"e", "x">>

\* The versions the model's registration files carry, as <<major, minor>>.
Versions == { <<1, 0>>, <<1, 1>>, <<2, 0>>, <<1, 300>>, <<256, 0>> }

VersionText(v) == Itoa(v[1]) \o <<".">> \o Itoa(v[2])

\* The registration files an extension directory of the model may hold,
\* each with the version tuple its name states: an install script per
\* version and a migration script per upgrade between two versions.
RegistrationFiles ==
    { [name |-> ExtName \o DashDash \o VersionText(v) \o DotSql,
       tuple |-> <<v[1], v[2], v[1], v[2]>>,
       migration |-> FALSE] : v \in Versions }
    \cup
    { [name |-> ExtName \o DashDash \o VersionText(vv[1]) \o DashDash
                \o VersionText(vv[2]) \o DotSql,
       tuple |-> <<vv[1][1], vv[1][2], vv[2][1], vv[2][2]>>,
       migration |-> TRUE] :
         vv \in { p \in Versions \X Versions :
                    \/ p[1][1] < p[2][1]
                    \/ p[1][1] = p[2][1] /\ p[1][2] < p[2][2] } }

\* Files of the directory that are not the extension's registration files.
OtherFiles == { <<"e", "x", "x", "-", "-", "1", ".", "0", ".", "s", "q", "l">> }

LibraryFiles == { <<"e", "x", ".", "s", "o">> }

\* os.ReadDir returns the entries sorted by file name.
ReadDir(names) == SortedStrings(names)

\* The zero value of ExtensionFiles.
ZeroExtensionFiles ==
    [Name |-> <<>>, ControlFileName |-> <<>>, SQLFileNames |-> <<>>,
     LibraryFileName |-> <<>>]

InitFiles ==
    /\ \E regs \in SUBSET { r.name : r \in RegistrationFiles },
          others \in SUBSET OtherFiles :
         /\ Cardinality(regs) <= MaxFiles
         /\ dirEntries = ReadDir(regs \cup others \cup {ExtName \o DotControl})
    /\ \E libs \in SUBSET LibraryFiles : libEntries = ReadDir(libs)
    /\ extFile = ZeroExtensionFiles
    /\ sortedNames = <<>>
    /\ nextLoop = TRUE
    /\ filesPc = "start"

IdleFiles ==
    /\ dirEntries = <<>>
    /\ libEntries = <<>>
    /\ extFile = ZeroExtensionFiles
    /\ sortedNames = <<>>
    /\ nextLoop = TRUE
    /\ filesPc = "done"

\* LoadExtensions up to the end of the sort, for the extension whose
\* control file the directory holds.
LE_Discover ==
    /\ filesPc = "start"
    /\ \E i \in 1..Len(dirEntries) :
         /\ HasSuffix(dirEntries[i], DotControl)
         /\ extFile' = Discovered(TrimSuffix(dirEntries[i], DotControl),
                                  dirEntries, libEntries)
    /\ sortedNames' = extFile'.SQLFileNames
    /\ nextLoop' = TRUE
    /\ filesPc' = "elide"
    /\ UNCHANGED <<dirEntries, libEntries>>

\* One pass of the outer elision loop: the inner loop looks for the first
\* non-migration name at index 1 or later and the list is cut to start
\* there.
LE_Elide ==
    /\ filesPc = "elide"
    /\ nextLoop
    /\ LET names == extFile.SQLFileNames
           i == ElideIndex(names)
       IN  IF i = -1
             THEN /\ nextLoop' = FALSE
                  /\ UNCHANGED extFile
             ELSE /\ nextLoop' = TRUE
                  /\ extFile' = [extFile EXCEPT !.SQLFileNames =
                                   SubSeq(names, i + 1, Len(names))]
    /\ UNCHANGED <<dirEntries, libEntries, sortedNames, filesPc>>

\* The elision loop ends and LoadExtensions returns.
LE_Return ==
    /\ filesPc = "elide"
    /\ ~nextLoop
    /\ filesPc' = "done"
    /\ UNCHANGED <<dirEntries, libEntries, extFile, sortedNames, nextLoop>>

-----------------------------------------------------------------------------
(* LoadSQLFunctionNames and ExtensionFiles.LoadLibrary.                    *)
(*                                                                         *)
(* A registration file's text is a sequence of tokens [k, s]: a word       *)
(* (k = "w"), a run of white space ("ws"), a single-quoted string ("q", s  *)
(* its contents) or one of ( ) , ; ("p").  The two regular expressions are *)
(* matched token by token: \s+ is a "ws" token, \s* an optional one, the   *)
(* literal space of `language c` a "ws" token that is exactly one space,   *)
(* and .*? the shortest run of tokens for which the rest matches.          *)

Tok(k, str) == [k |-> k, s |-> str]
Word(str) == Tok("w", str)
Space == Tok("ws", <<" ">>)
Quoted(str) == Tok("q", str)
Punct(c) == Tok("p", <<c>>)

IsWord(tokens, i, str) ==
    i <= Len(tokens) /\ tokens[i].k = "w" /\ LowerStr(tokens[i].s) = str
IsSpace(tokens, i) == i <= Len(tokens) /\ tokens[i].k = "ws"
IsQuoted(tokens, i) == i <= Len(tokens) /\ tokens[i].k = "q"
IsPunct(tokens, i, c) == i <= Len(tokens) /\ tokens[i] = Punct(c)

\* The least member of a set of integers, 0 for the empty set.
Least(set) == IF set = {} THEN 0 ELSE CHOOSE i \in set : \A j \in set : i <= j

\* The index after an optional white-space token at i.
SkipSpace(tokens, i) == IF IsSpace(tokens, i) THEN i + 1 ELSE i

\* create\s+(?:or\s+replace\s+)?function at token i: the index of the
\* token after "function", 0 when the pattern does not match there.
CreateFunctionAt(tokens, i) ==
    IF ~(IsWord(tokens, i, <<"c", "r", "e", "a", "t", "e">>) /\ IsSpace(tokens, i + 1)) THEN 0
    ELSE IF /\ IsWord(tokens, i + 2, <<"o", "r">>) /\ IsSpace(tokens, i + 3)
            /\ IsWord(tokens, i + 4, <<"r", "e", "p", "l", "a", "c", "e">>) /\ IsSpace(tokens, i + 5)
            /\ IsWord(tokens, i + 6, <<"f", "u", "n", "c", "t", "i", "o", "n">>)
           THEN i + 7
    ELSE IF IsWord(tokens, i + 2, <<"f", "u", "n", "c", "t", "i", "o", "n">>) THEN i + 3
    ELSE 0

\* createFunctionStart.FindStringIndex: the first token a CREATE FUNCTION
\* starts at, 0 when there is none.
createFunctionStart(tokens) ==
    Least({ i \in 1..Len(tokens) : CreateFunctionAt(tokens, i) # 0 })

\* `language c` at token i: the word, exactly one space, and a word that
\* starts with c.
LanguageCAt(tokens, i) ==
    /\ IsWord(tokens, i, <<"l", "a", "n", "g", "u", "a", "g", "e">>)
    /\ i + 2 <= Len(tokens)
    /\ tokens[i + 1] = Space
    /\ tokens[i + 2].k = "w"
    /\ Lower(tokens[i + 2].s[1]) = "c"

\* as\s+'.*?'\s*,\s*'(.*?)' with the `as` ending token i: the index of the
\* quoted token the group captures, 0 when the pattern does not match.
AsPairAt(tokens, i) ==
    IF ~(/\ i <= Len(tokens) /\ tokens[i].k = "w"
         /\ HasSuffix(LowerStr(tokens[i].s), <<"a", "s">>)
         /\ IsSpace(tokens, i + 1) /\ IsQuoted(tokens, i + 2))
      THEN 0
      ELSE Least({ SkipSpace(tokens, SkipSpace(tokens, m + 1) + 1) :
                     m \in { m \in (i + 2)..Len(tokens) :
                               /\ IsQuoted(tokens, m)
                               /\ IsPunct(tokens, SkipSpace(tokens, m + 1), ",")
                               /\ IsQuoted(tokens,
                                    SkipSpace(tokens,
                                      SkipSpace(tokens, m + 1) + 1)) } })

HasSemicolonFrom(tokens, i) ==
    \E e \in i..Len(tokens) : IsPunct(tokens, e, ";")

\* The least pair of a non-empty set of pairs, by first then second member.
LeastPair(pairs) ==
    CHOOSE x \in pairs : \A y \in pairs :
        x[1] < y[1] \/ (x[1] = y[1] /\ x[2] <= y[2])

\* The three alternatives after the argument list, tried in order from
\* token r: the submatches [ok, g2, g3].  langs holds the places where
\* `language c` matches, pair[j] the group an `as` pair ending its `as` at
\* j captures, semi[i] whether a semicolon follows from i on.
AlternativesOf(tokens, r, langs, pair, semi) ==
    Only({ IF alt1 # {}
             THEN [ok |-> TRUE, g2 |-> tokens[pair[LeastPair(alt1)[2]]].s,
                   g3 |-> <<>>]
           ELSE IF alt2 # {}
             THEN [ok |-> TRUE, g2 |-> <<>>,
                   g3 |-> tokens[pair[Least(alt2)]].s]
           ELSE IF \E i \in langs : semi[i + 3]
             THEN [ok |-> TRUE, g2 |-> <<>>, g3 |-> <<>>]
           ELSE [ok |-> FALSE, g2 |-> <<>>, g3 |-> <<>>] :
           alt1 \in { { ij \in langs \X (r..Len(tokens)) :
                          /\ ij[2] >= ij[1] + 3
                          /\ pair[ij[2]] # 0
                          /\ semi[pair[ij[2]] + 1] } },
           alt2 \in { { j \in r..Len(tokens) :
                          /\ pair[j] # 0
                          /\ \E i \in langs : i > pair[j] /\ semi[i + 3] } } })

Alternatives(tokens, r) ==
    AlternativesOf(tokens, r,
        { i \in r..Len(tokens) : LanguageCAt(tokens, i) },
        [ j \in 1..Len(tokens) |-> AsPairAt(tokens, j) ],
        [ i \in 1..(Len(tokens) + 4) |-> HasSemicolonFrom(tokens, i) ])

\* The text of a run of tokens.
RECURSIVE TextOf(_)
TextOf(tokens) ==
    IF tokens = <<>> THEN <<>>
    ELSE (IF tokens[1].k = "q" THEN <<"'">> \o tokens[1].s \o <<"'">>
          ELSE tokens[1].s) \o TextOf(Tail(tokens))

\* sqlFunctionCapture matched from token p: function\s+(.*?)\s*\(.*?\)\s+
\* and the alternatives.  The shortest name, then the shortest argument
\* list, for which an alternative matches.
CaptureWays(tokens, p, n0, alt) ==
    Only({ IF n0 = 1 \/ ~IsSpace(tokens, n0 - 1) \/ ways = {} THEN <<>>
           ELSE Only({ << TextOf(SubSeq(tokens, p, Len(tokens))),
                          TextOf(SubSeq(tokens, n0,
                            IF ab[1] - 1 >= n0 /\ IsSpace(tokens, ab[1] - 1)
                              THEN ab[1] - 2 ELSE ab[1] - 1)),
                          alt[ab[2]].g2, alt[ab[2]].g3 >> :
                       ab \in {LeastPair(ways)} }) :
           ways \in { { ab \in (n0..Len(tokens)) \X (n0..Len(tokens)) :
                          /\ IsPunct(tokens, ab[1], "(")
                          /\ ab[2] > ab[1]
                          /\ alt[ab[2]].ok } } })

CaptureAt(tokens, p) ==
    Only({ CaptureWays(tokens, p, n0,
             [ b \in 1..Len(tokens) |->
                 IF /\ b >= n0 /\ IsPunct(tokens, b, ")")
                    /\ IsSpace(tokens, b + 1)
                   THEN Alternatives(tokens, b + 2)
                   ELSE [ok |-> FALSE, g2 |-> <<>>, g3 |-> <<>>] ]) :
           n0 \in {CreateFunctionAt(tokens, p) + 1} })

\* sqlFunctionCapture.FindStringSubmatch: the leftmost match's submatches,
\* the empty sequence when nothing matches.
sqlFunctionCapture(tokens) ==
    Only({ IF \A p \in 1..Len(tokens) : cap[p] = <<>> THEN <<>>
           ELSE cap[Least({ p \in 1..Len(tokens) : cap[p] # <<>> })] :
           cap \in { [ p \in 1..Len(tokens) |->
                         IF CreateFunctionAt(tokens, p) # 0
                           THEN CaptureAt(tokens, p) ELSE <<>> ] } })

\* The name one statement contributes: the switch on len(matches).
NamesOfMatch(matches) ==
    IF Len(matches) = 0 THEN {}
    ELSE IF Len(matches[3]) > 0 THEN {matches[3]}
    ELSE IF Len(matches[4]) > 0 THEN {matches[4]}
    ELSE {matches[2]}

\* One turn of the scanning loop on the text from the CREATE FUNCTION at
\* startIdx on: cut at the first semicolon, match, step over "create".
RECURSIVE ScanFile(_, _)
ScanFrom(rest, funcNames) ==
    Only({ IF endIdx = 0 THEN funcNames
           ELSE ScanFile(Tail(rest),
                  funcNames \cup
                    NamesOfMatch(sqlFunctionCapture(SubSeq(rest, 1, endIdx)))) :
           endIdx \in { Least({ e \in 1..Len(rest) : IsPunct(rest, e, ";") }) } })

\* The scanning loop over one file's text: advance to the next CREATE
\* FUNCTION, or stop when there is none.
ScanFile(fileRemaining, funcNames) ==
    Only({ IF startIdx = 0 THEN funcNames
           ELSE Only({ ScanFrom(rest, funcNames) :
                       rest \in { SubSeq(fileRemaining, startIdx,
                                         Len(fileRemaining)) } }) :
           startIdx \in { createFunctionStart(fileRemaining) } })

\* The loop over the SQL files, in order: [err, names]; the first file
\* that cannot be read ends it with the read error and no names.
RECURSIVE ScanFiles(_, _, _)
ScanFiles(fileNames, data, funcNames) ==
    IF fileNames = <<>> THEN [err |-> "", names |-> funcNames]
    ELSE IF ~data[fileNames[1]].readable
      THEN [err |-> "read error", names |-> {}]
    ELSE ScanFiles(Tail(fileNames), data,
                   ScanFile(data[fileNames[1]].text, funcNames))

\* What LoadSQLFunctionNames returns: nil and the error, or the sorted
\* keys of the name set.
NamesReturned(scan) ==
    IF scan.err # "" THEN [err |-> scan.err, names |-> <<>>]
    ELSE [err |-> "", names |-> SortedStrings(scan.names)]

LoadSQLFunctionNamesResult(ext, data) ==
    NamesReturned(ScanFiles(ext.SQLFileNames, data, {}))

\* The statements the model's registration files are made of, each with
\* what it declares: the SQL-level name, the language, the explicit C
\* symbol (empty when none is given).
FunctionHead(orReplace, name) ==
    (IF orReplace
       THEN << Word(<<"C", "R", "E", "A", "T", "E">>), Space, Word(<<"O", "R">>), Space, Word(<<"R", "E", "P", "L", "A", "C", "E">>),
               Space, Word(<<"F", "U", "N", "C", "T", "I", "O", "N">>), Space >>
       ELSE << Word(<<"c", "r", "e", "a", "t", "e">>), Space, Word(<<"f", "u", "n", "c", "t", "i", "o", "n">>), Space >>)
    \o << Word(name), Punct("("), Punct(")"), Space,
          Word(<<"r", "e", "t", "u", "r", "n", "s">>), Space, Word(<<"i", "n", "t">>), Space >>

AsClause(sym) ==
    << Word(<<"A", "S">>), Space, Quoted(<<"l", "i", "b">>) >>
    \o (IF sym = <<>> THEN <<>> ELSE << Punct(","), Space, Quoted(sym) >>)

LanguageClause(sep, lang) == << Word(<<"L", "A", "N", "G", "U", "A", "G", "E">>), Tok("ws", sep), Word(lang) >>

Statements ==
    { [text |-> FunctionHead(FALSE, <<"f", "o", "o">>) \o LanguageClause(<<" ">>, <<"C">>)
                \o <<Space>> \o AsClause(<<"c", "_", "f", "o", "o">>) \o <<Punct(";")>>,
       name |-> <<"f", "o", "o">>, lang |-> "c", symbol |-> <<"c", "_", "f", "o", "o">>],
      [text |-> FunctionHead(TRUE, <<"b", "a", "r">>) \o AsClause(<<"c", "_", "b", "a", "r">>) \o <<Space>>
                \o LanguageClause(<<" ">>, <<"c">>) \o <<Punct(";")>>,
       name |-> <<"b", "a", "r">>, lang |-> "c", symbol |-> <<"c", "_", "b", "a", "r">>],
      [text |-> FunctionHead(FALSE, <<"b", "a", "z">>) \o AsClause(<<>>) \o <<Space>>
                \o LanguageClause(<<" ">>, <<"C">>) \o <<Punct(";")>>,
       name |-> <<"b", "a", "z">>, lang |-> "c", symbol |-> <<>>],
      [text |-> FunctionHead(FALSE, <<"a", "a", "a">>) \o AsClause(<<"c", "_", "f", "o", "o">>) \o <<Space>>
                \o LanguageClause(<<" ">>, <<"C">>) \o <<Punct(";")>>,
       name |-> <<"a", "a", "a">>, lang |-> "c", symbol |-> <<"c", "_", "f", "o", "o">>],
      [text |-> FunctionHead(FALSE, <<"q", "u", "x">>) \o AsClause(<<"c", "_", "q", "u", "x">>) \o <<Space>>
                \o LanguageClause(<<" ">>, <<"s", "q", "l">>) \o <<Punct(";")>>,
       name |-> <<"q", "u", "x">>, lang |-> "sql", symbol |-> <<"c", "_", "q", "u", "x">>],
      [text |-> FunctionHead(FALSE, <<"a", "b", "s">>) \o AsClause(<<"c", "_", "a", "b", "s">>) \o <<Space>>
                \o LanguageClause(<<" ", " ">>, <<"C">>) \o <<Punct(";")>>,
       name |-> <<"a", "b", "s">>, lang |-> "c", symbol |-> <<"c", "_", "a", "b", "s">>] }

\* A file's text: its statements, one space between them.
RECURSIVE FileText(_)
FileText(stmts) ==
    IF stmts = <<>> THEN <<>>
    ELSE stmts[1].text \o <<Space>> \o FileText(Tail(stmts))

StatementLists == UNION { [1..n -> Statements] : n \in 0..MaxStmts }

\* The files a directory of the model may hold: readable with a list of
\* statements, or unreadable.
FileChoices ==
    [readable : {TRUE}, stmts : StatementLists]
    \cup { [readable |-> FALSE, stmts |-> <<>>] }

\* The directories of n files that hold at most budget statements in all.
RECURSIVE Directories(_, _)
Directories(n, budget) ==
    IF n = 0 THEN { <<>> }
    ELSE UNION { { <<f>> \o rest :
                     rest \in Directories(n - 1, budget - Len(f.stmts)) } :
                 f \in { c \in FileChoices : Len(c.stmts) <= budget } }

NotCalled == "not called"

InitSQL ==
    /\ \E n \in 0..MaxSqlFiles :
         \E files \in Directories(n, MaxStmts) :
           /\ fileData = [i \in 1..n |->
                            [readable |-> files[i].readable,
                             text |-> FileText(files[i].stmts)]]
           /\ \E lib \in { <<>>, <<"e", "x", ".", "s", "o">> } :
                sqlExt = [Name |-> ExtName,
                          SQLFileNames |-> [i \in 1..n |-> i],
                          LibraryFileName |-> lib]
    /\ namesResult = [err |-> NotCalled, names |-> <<>>]
    /\ libResult = [err |-> NotCalled, lib |-> <<>>]
    /\ libOpens = <<>>

IdleSQL ==
    /\ fileData = <<>>
    /\ sqlExt = [Name |-> ExtName, SQLFileNames |-> <<>>,
                 LibraryFileName |-> <<>>]
    /\ namesResult = [err |-> NotCalled, names |-> <<>>]
    /\ libResult = [err |-> NotCalled, lib |-> <<>>]
    /\ libOpens = <<>>

\* extFile.LoadSQLFunctionNames()
LoadSQLFunctionNames ==
    /\ namesResult.err = NotCalled
    /\ namesResult' = LoadSQLFunctionNamesResult(sqlExt, fileData)
    /\ UNCHANGED <<sqlExt, fileData, libResult, libOpens>>

\* A mutated guard that lets an extension without a library through.
MissingLibraryNever(ext) == FALSE

\* len(extFile.LibraryFileName) == 0
MissingLibrary(ext) == Len(ext.LibraryFileName) = 0

\* The package-level LoadLibrary(path, funcNames): it opens the shared
\* library at path, which succeeds or fails.
\* The lib field holds the Library returned, as a sequence of at most one.
LoadLibraryAt(path, funcNames, ok) ==
    IF ok THEN [err |-> "", lib |-> <<[path |-> path, funcs |-> funcNames]>>]
    ELSE [err |-> "load failure", lib |-> <<>>]

\* extFile.LoadLibrary()
LoadLibrary ==
    /\ libResult.err = NotCalled
    /\ IF MissingLibrary(sqlExt)
         THEN /\ libResult' = [err |-> "does not reference a library",
                               lib |-> <<>>]
              /\ UNCHANGED libOpens
         ELSE LET got == LoadSQLFunctionNamesResult(sqlExt, fileData)
              IN  IF got.err # ""
                    THEN /\ libResult' = [err |-> got.err, lib |-> <<>>]
                         /\ UNCHANGED libOpens
                    ELSE \E ok \in BOOLEAN :
                           /\ libResult' =
                                LoadLibraryAt(sqlExt.LibraryFileName,
                                              got.names, ok)
                           /\ libOpens' =
                                Append(libOpens, sqlExt.LibraryFileName)
    /\ UNCHANGED <<sqlExt, fileData, namesResult>>

-----------------------------------------------------------------------------
(* The specifications: one per part of the program, the other parts at     *)
(* rest.                                                                   *)

exceptLoader == <<lookupVars, errVars, callVars, filesVars, sqlVars>>
exceptLookup == <<loaderVars, errVars, callVars, filesVars, sqlVars>>
exceptErr == <<loaderVars, lookupVars, callVars, filesVars, sqlVars>>
exceptCall == <<loaderVars, lookupVars, errVars, filesVars, sqlVars>>
exceptFiles == <<loaderVars, lookupVars, errVars, callVars, sqlVars>>
exceptSQL == <<loaderVars, lookupVars, errVars, callVars, filesVars>>

StartLoader ==
    InitLoader /\ IdleLookup /\ InitErr /\ InitCall /\ IdleFiles /\ IdleSQL

NextLoader ==
    \/ \E t \in Threads : CallLoad(t) /\ UNCHANGED exceptLoader
    \/ \E t \in Threads : OnceDo(t) /\ UNCHANGED exceptLoader
    \/ \E t \in Threads : OnceLock(t) /\ UNCHANGED exceptLoader
    \/ \E t \in Threads : OnceSlow(t) /\ UNCHANGED exceptLoader
    \/ \E t \in Threads : BootstrapBody(t) /\ UNCHANGED exceptLoader
    \/ \E t \in Threads : PanicExit(t) /\ UNCHANGED exceptLoader
    \/ \E t \in Threads : OpenExtension(t) /\ UNCHANGED exceptLoader

SpecLoader == StartLoader /\ [][NextLoader]_vars

StartLookup ==
    IdleLoader /\ InitLookup /\ InitErr /\ InitCall /\ IdleFiles /\ IdleSQL

NextLookup == \E sym \in Syms : Lookup(sym) /\ UNCHANGED exceptLookup

SpecLookup == StartLookup /\ [][NextLookup]_vars

StartErr ==
    IdleLoader /\ IdleLookup /\ InitErr /\ InitCall /\ IdleFiles /\ IdleSQL

NextErr ==
    \/ errstart /\ UNCHANGED exceptErr
    \/ \E m \in Messages : errmsg(m) /\ UNCHANGED exceptErr
    \/ errfinish /\ UNCHANGED exceptErr

SpecErr == StartErr /\ [][NextErr]_vars

StartCall ==
    IdleLoader /\ IdleLookup /\ InitErr /\ InitCall /\ IdleFiles /\ IdleSQL

NextCall ==
    \/ \E fn \in Fns, c \in Collations, a \in Datums :
          DFC_Enter(fn, c, a) /\ UNCHANGED exceptCall
    \/ DFC_MallocFails /\ UNCHANGED exceptCall
    \/ DFC_Malloc /\ UNCHANGED exceptCall
    \/ DFC_Memset /\ UNCHANGED exceptCall
    \/ DFC_Fill /\ UNCHANGED exceptCall
    \/ DFC_Callee /\ UNCHANGED exceptCall
    \/ DFC_Return /\ UNCHANGED exceptCall

SpecCall == StartCall /\ [][NextCall]_vars

StartFiles ==
    IdleLoader /\ IdleLookup /\ InitErr /\ InitCall /\ InitFiles /\ IdleSQL

NextFiles ==
    \/ LE_Discover /\ UNCHANGED exceptFiles
    \/ LE_Elide /\ UNCHANGED exceptFiles
    \/ LE_Return /\ UNCHANGED exceptFiles

SpecFiles == StartFiles /\ [][NextFiles]_vars

\* LoadExtensions is one sequential call: once it is in the elision loop,
\* the next pass of the loop, and the return that follows the last pass,
\* are executed.
SpecFilesFair ==
    /\ StartFiles
    /\ [][NextFiles]_vars
    /\ WF_vars(LE_Elide /\ UNCHANGED exceptFiles)
    /\ WF_vars(LE_Return /\ UNCHANGED exceptFiles)

StartSQL ==
    IdleLoader /\ IdleLookup /\ InitErr /\ InitCall /\ IdleFiles /\ InitSQL

NextSQL ==
    \/ LoadSQLFunctionNames /\ UNCHANGED exceptSQL
    \/ LoadLibrary /\ UNCHANGED exceptSQL

SpecSQL == StartSQL /\ [][NextSQL]_vars

-----------------------------------------------------------------------------
(* C1: whatever the interleaving of callers, the bootstrap body runs at    *)
(* most once, has run exactly once for every caller that is past Once.Do,  *)
(* and no caller opens its extension library before that run has ended.    *)
C1_BootstrapOnce ==
    /\ bootRuns <= 1
    /\ bootEnded <= bootRuns
    /\ \A t \in Threads :
         pc[t] \in {"open", "panic"} => bootRuns = 1 /\ bootEnded = 1
    /\ opened # {} => bootRuns = 1 /\ bootEnded = 1
    /\ ~openedEarly

\* Both threads have opened an extension after the single bootstrap run.
C1_Witness ==
    /\ bootRuns = 1
    /\ \A t \in Threads : \E h \in opened : h[1] = t

(* C2: in an execution where the bootstrap's load of the companion library *)
(* failed, no extension library is ever opened.                            *)
C2_NoOpenAfterFailedBootstrap ==
    companionFailed => opened = {}

-----------------------------------------------------------------------------
\* The 36 decorations of a name the search covers, as a set.
AllDecorations(sym) ==
    { sym, <<"_">> \o sym }
    \cup { sym \o <<"@">> \o Itoa(n) : n \in {0} \cup { 4 * k : k \in 1..16 } }
    \cup { <<"_">> \o sym \o <<"@">> \o Itoa(n) :
             n \in {0} \cup { 4 * k : k \in 1..16 } }

IsPrefixOf(s, t) == Len(s) <= Len(t) /\ s = SubSeq(t, 1, Len(s))

(* C3 as stated: every decorated candidate is tried before the bare name,  *)
(* in the order _name, name@0, _name@0, name@4, _name@4, ..., and the      *)
(* bare name last; a library exporting a decorated form and the bare name  *)
(* at different addresses resolves to the decorated form's address.        *)
C3_DecoratedBeforeBare ==
    \A i \in 1..Len(lookupLog) :
        LET r == lookupLog[i]
            decorated == (AllDecorations(r.sym) \ {r.sym}) \cap DOMAIN dll
        IN  /\ IsPrefixOf(r.probed, CandidatesBareLast(r.sym))
            /\ (r.sym \in DOMAIN dll /\ decorated # {}
                 /\ \A d \in decorated : dll[d] # dll[r.sym])
                => r.addr \in { dll[d] : d \in decorated }

(* C3 amended: the bare name is tried first, then _name, name@0, _name@0,  *)
(* then name@N, _name@N for N = 4, 8, ..., 64; the first candidate that    *)
(* resolves is returned, so a library exporting the bare name resolves to  *)
(* the bare name's address whatever decorated forms it also exports.       *)
C3_BareFirst ==
    \A i \in 1..Len(lookupLog) :
        LET r == lookupLog[i]
            order == <<r.sym>> \o SubSeq(CandidatesBareLast(r.sym), 1, 35)
        IN  /\ IsPrefixOf(r.probed, order)
            /\ r.err = "" =>
                  /\ r.probed[Len(r.probed)] \in DOMAIN dll
                  /\ r.addr = dll[r.probed[Len(r.probed)]]
                  /\ \A j \in 1..(Len(r.probed) - 1) :
                        r.probed[j] \notin DOMAIN dll
            /\ r.sym \in DOMAIN dll => r.addr = dll[r.sym]

\* A library exports f and _f@8 at different addresses and f was looked up.
C3_Witness ==
    /\ <<"f">> \in DOMAIN dll
    /\ <<"_", "f", "@", "8">> \in DOMAIN dll
    /\ dll[<<"f">>] # dll[<<"_", "f", "@", "8">>]
    /\ \E i \in 1..Len(lookupLog) : lookupLog[i].sym = <<"f">>

(* C4: Lookup fails with "symbol not found" exactly when none of the 36    *)
(* candidates is exported, otherwise it returns the address of an exported *)
(* candidate; repeated calls with one name on an unchanged handle probe    *)
(* the same names in the same order and return the same address.           *)
C4_NotFoundIffNoCandidate ==
    /\ \A i \in 1..Len(lookupLog) :
          LET r == lookupLog[i]
              exported == AllDecorations(r.sym) \cap DOMAIN dll
          IN  /\ Cardinality(AllDecorations(r.sym)) = 36
              /\ (r.err = "symbol not found") <=> (exported = {})
              /\ r.err \in {"", "symbol not found"}
              /\ r.err = "" => r.addr \in { dll[d] : d \in exported }
              /\ r.err # "" => r.addr = 0 /\ Len(r.probed) = 36
    /\ \A i, j \in 1..Len(lookupLog) :
          lookupLog[i].sym = lookupLog[j].sym => lookupLog[i] = lookupLog[j]

\* f is exported only as f@64 (the last decoration tried but one) and two
\* lookups of f have both resolved to it.
C4_Witness ==
    /\ DOMAIN dll \cap AllDecorations(<<"f">>) = { <<"f", "@", "6", "4">> }
    /\ Len(lookupLog) = 2
    /\ \A i \in 1..2 : /\ lookupLog[i].sym = <<"f">>
                        /\ lookupLog[i].addr = dll[<<"f", "@", "6", "4">>]

\* A library exporting only names the search does not cover (f@68) was
\* asked for f and answered "symbol not found".
C4_WitnessNotFound ==
    /\ DOMAIN dll = { <<"f", "@", "6", "8">> }
    /\ \E i \in 1..Len(lookupLog) :
          lookupLog[i].sym = <<"f">> /\ lookupLog[i].err = "symbol not found"

-----------------------------------------------------------------------------
\* The op of the latest call, "" before the first.
LastErrOp == IF errTrace = <<>> THEN "" ELSE errTrace[Len(errTrace)].op

(* C5 as stated: errfinish clears the message slot, so the slot is empty   *)
(* after any sequence of calls ending in errfinish, and no recorded        *)
(* message is emitted twice.                                               *)
C5_FinishClearsSlot ==
    /\ LastErrOp = "errfinish" => last_error.text = <<>>
    /\ \A i, j \in 1..Len(errStderr) :
          errStderr[i].call = errStderr[j].call => i = j

\* The text the slot holds after a sequence of calls when errstart clears
\* it, errmsg overwrites it with at most 511 characters and errfinish
\* leaves it alone.
RECURSIVE SlotAfter(_)
SlotAfter(trace) ==
    IF trace = <<>> THEN <<>>
    ELSE LET e == trace[Len(trace)]
             before == SubSeq(trace, 1, Len(trace) - 1)
         IN  CASE e.op = "errstart" -> <<>>
               [] e.op = "errmsg" ->
                    IF Len(e.text) <= 511 THEN e.text
                    ELSE SubSeq(e.text, 1, 511)
               [] OTHER -> SlotAfter(before)

\* The texts written to stderr by a sequence of calls: one per errfinish
\* that found the slot non-empty.
RECURSIVE EmittedBy(_)
EmittedBy(trace) ==
    IF trace = <<>> THEN <<>>
    ELSE LET e == trace[Len(trace)]
             before == SubSeq(trace, 1, Len(trace) - 1)
         IN  IF e.op = "errfinish" /\ SlotAfter(before) # <<>>
               THEN Append(EmittedBy(before), SlotAfter(before))
               ELSE EmittedBy(before)

(* C5 amended: errfinish emits the most recently recorded message (cut to  *)
(* 511 characters) when it is non-empty and leaves the slot as it is; the  *)
(* slot is emptied by errstart, not by errfinish, so an errfinish that     *)
(* follows another with no errstart or errmsg between emits the same       *)
(* message again.                                                          *)
C5_FinishKeepsSlot ==
    /\ last_error.text = SlotAfter(errTrace)
    /\ [i \in 1..Len(errStderr) |-> errStderr[i].text] = EmittedBy(errTrace)
    /\ LastErrOp = "errstart" => last_error.text = <<>>

\* errmsg, errfinish, errfinish: the one message has been emitted twice
\* and is still in the slot.
C5_Witness ==
    /\ Len(errTrace) >= 3
    /\ errTrace[Len(errTrace)].op = "errfinish"
    /\ errTrace[Len(errTrace) - 1].op = "errfinish"
    /\ errTrace[Len(errTrace) - 2].op = "errmsg"
    /\ last_error.text # <<>>
    /\ Len(errStderr) >= 2
    /\ errStderr[Len(errStderr)] = errStderr[Len(errStderr) - 1]

-----------------------------------------------------------------------------
\* The callee run of the k-th invocation that reached its callee.
ReachedReturns == SelectSeq(returns, LAMBDA r : r.reachedCallee)

NullLines == SelectSeq(callStderr, LAMBDA l : l.line = "returned NULL")

NullRuns == SelectSeq(callLog, LAMBDA c : c.setsNull)

-----------------------------------------------------------------------------
\* The version tuple a registration file's name states.
TupleOf(fileName) ==
    (CHOOSE r \in RegistrationFiles : r.name = fileName).tuple

IsMigration(fileName) ==
    (CHOOSE r \in RegistrationFiles : r.name = fileName).migration

\* Lexicographic order on 4-tuples of integers.
TupleLess(a, b) ==
    \E k \in 1..4 : a[k] < b[k] /\ \A j \in 1..(k - 1) : a[j] = b[j]

(* C7: the sorted registration files ascend by (from-major, from-minor,    *)
(* to-major, to-minor): a file with the smaller tuple precedes a file with *)
(* the larger one, also for components of 256 and more.                    *)
C7_SortedByVersionTuple ==
    filesPc # "start" =>
      \A i, j \in 1..Len(sortedNames) :
          TupleLess(TupleOf(sortedNames[i]), TupleOf(sortedNames[j])) => i < j

(* C8: after the elision the list is the sorted list from its first        *)
(* non-migration entry on (the whole sorted list when that entry is the    *)
(* first one, or when there is none).                                      *)
C8_StartsAtFirstNonMigration ==
    filesPc = "done" =>
      LET base == { i \in 1..Len(sortedNames) : ~IsMigration(sortedNames[i]) }
          first == IF base = {} THEN 1
                   ELSE CHOOSE i \in base : \A j \in base : i <= j
      IN  extFile.SQLFileNames = SubSeq(sortedNames, first, Len(sortedNames))

-----------------------------------------------------------------------------
\* The statements a file's text is made of.
StatementsOf(text) == CHOOSE sl \in StatementLists : FileText(sl) = text

\* Every statement of the extension's readable registration files.
AllStatements ==
    UNION { Range(StatementsOf(fileData[i].text)) :
              i \in { i \in DOMAIN fileData : fileData[i].readable } }

\* The C-level name a LANGUAGE C declaration refers to.
DeclaredName(st) == IF st.symbol # <<>> THEN st.symbol ELSE st.name

AnyUnreadable == \E i \in DOMAIN fileData : ~fileData[i].readable

(* C9: LoadSQLFunctionNames returns, strictly ascending, exactly the names *)
(* of the LANGUAGE C function declarations of the registration files: the  *)
(* explicit C symbol where one is given, the SQL-level name otherwise, and *)
(* nothing for a declaration in another language.                          *)
C9_NamesOfLanguageCFunctions ==
    namesResult.err = "" =>
      /\ Range(namesResult.names)
           = { DeclaredName(st) : st \in { x \in AllStatements : x.lang = "c" } }
      /\ \A i \in 1..(Len(namesResult.names) - 1) :
            StrLess(namesResult.names[i], namesResult.names[i + 1])

(* C10 as stated: LoadLibrary fails with "does not reference a library"    *)
(* whenever no library file is associated and with the read error whenever *)
(* a registration file is unreadable; either way it returns no Library and *)
(* no names and opens no shared library.                                   *)
C10_FailsWithoutOpening ==
    libResult.err # NotCalled =>
      /\ sqlExt.LibraryFileName = <<>> =>
            libResult.err = "does not reference a library"
      /\ AnyUnreadable => libResult.err = "read error"
      /\ (sqlExt.LibraryFileName = <<>> \/ AnyUnreadable) =>
            libResult.lib = <<>> /\ libOpens = <<>>

(* C10 amended: LoadLibrary fails with "does not reference a library"      *)
(* whenever no library file is associated, whatever the registration       *)
(* files, and with the read error whenever a library file is associated    *)
(* and a registration file is unreadable; either way it returns no Library *)
(* and opens no shared library, and LoadSQLFunctionNames returns no names  *)
(* next to a read error.                                                   *)
C10_MissingLibraryFirst ==
    /\ libResult.err # NotCalled =>
         /\ sqlExt.LibraryFileName = <<>> =>
               libResult.err = "does not reference a library"
         /\ (sqlExt.LibraryFileName # <<>> /\ AnyUnreadable) =>
               libResult.err = "read error"
         /\ (sqlExt.LibraryFileName = <<>> \/ AnyUnreadable) =>
               libResult.lib = <<>> /\ libOpens = <<>>
    /\ (namesResult.err # NotCalled /\ AnyUnreadable) =>
         namesResult = [err |-> "read error", names |-> <<>>]

\* LoadLibrary has failed with the read error on an extension that has a
\* library, a readable first file declaring a C function and an unreadable
\* second file; nothing was opened.
C10_Witness ==
    /\ libResult.err = "read error"
    /\ sqlExt.LibraryFileName # <<>>
    /\ Len(fileData) = 2
    /\ fileData[1].readable /\ fileData[1].text # <<>>
    /\ ~fileData[2].readable
    /\ libOpens = <<>>
    /\ namesResult.err = "read error"

-----------------------------------------------------------------------------
\* What is done to one frame, in order, from its allocation to its release.
FrameCycle == <<"malloc", "memset", "fill", "call", "free">>

\* The arguments of the k-th invocation that reached its callee.
ArgsOfRun(k) ==
    IF k <= Len(ReachedReturns) THEN ReachedReturns[k].args ELSE callArgs

\* The frame a callee must be handed for the given arguments: every byte
\* zero but the collation, the argument count and the first argument.
ExpectedFrame(args) ==
    [isnull |-> FALSE, fncollation |-> args.collation, nargs |-> 1,
     args |-> [i \in 1..FrameSlots |->
                 IF i = 1 THEN [value |-> args.arg1, isnull |-> FALSE]
                 ELSE ZeroArg]]

(* C11: across any sequence of invocations, each invocation that reaches   *)
(* its callee allocates a frame of its own, zero-fills all of it before    *)
(* setting isnull, nargs and the first argument and before the callee      *)
(* runs, and frees it exactly once before returning; no frame is live      *)
(* between invocations and no frame is handed to two callee runs.          *)
C11_FrameScopedToInvocation ==
    /\ \A i \in 1..Len(frameLog) :
          /\ frameLog[i].op = FrameCycle[((i - 1) % 5) + 1]
          /\ frameLog[i].block = frameLog[i - ((i - 1) % 5)].block
    /\ Len(ReachedReturns) = Len(frameLog) \div 5
    /\ Len(callLog) = (Len(frameLog) + 1) \div 5
    /\ \A k \in 1..Len(callLog) :
          /\ callLog[k].block = frameLog[5 * k - 1].block
          /\ callLog[k].frame = ExpectedFrame(ArgsOfRun(k))
    /\ { b \in Blocks : heap[b].live } =
          (IF Len(frameLog) % 5 = 0 THEN {}
           ELSE { frameLog[Len(frameLog)].block })
    /\ callPc = "idle" => Len(frameLog) % 5 = 0
    /\ callPc = "idle" => \A b \in Blocks : ~heap[b].live

\* Two invocations have run their callees and returned; the allocator gave
\* the second the address the first had freed, and its callee was handed
\* the non-zero argument in a frame otherwise zero.
C11_Witness ==
    /\ callPc = "idle"
    /\ Len(callLog) = 2
    /\ Len(frameLog) = 10
    /\ frameLog[6].block = frameLog[5].block
    /\ callLog[2].frame.args[1].value = 7
    /\ \A b \in Blocks : ~heap[b].live

-----------------------------------------------------------------------------
\* a is a suffix of b.
IsSuffixOf(a, b) ==
    /\ Len(a) <= Len(b)
    /\ a = SubSeq(b, Len(b) - Len(a) + 1, Len(b))

\* The zero-based indexes of the names that hold exactly one "--".
SingleDashIndexes(names) ==
    { i \in 0..(Len(names) - 1) : Count(names[i + 1], DashDash) = 1 }

\* What the elision loop keeps true of the list and has reached at its end.
C12_ElisionResult ==
    /\ filesPc = "elide" =>
          /\ IsSuffixOf(extFile.SQLFileNames, sortedNames)
          /\ sortedNames # <<>> => extFile.SQLFileNames # <<>>
    /\ filesPc = "elide" /\ ~nextLoop =>
          \A i \in SingleDashIndexes(extFile.SQLFileNames) : i = 0

====
